---- MODULE Spec2Model ----
(***************************************************************************)
(* Model of the two launcher scripts of the multiport repository:          *)
(*   multi-port.ts         (the "basic" launcher,  src/unnamed/part_001)   *)
(*   multi-port-config.ts  (the "config" launcher, src/unnamed/part_002)   *)
(* Strings are TLA+ strings; a character is a string of length one.        *)
(* Array indices are 1-based here, so findIndex returns 0 where the        *)
(* JavaScript returns -1.                                                  *)
(***************************************************************************)
EXTENDS Integers, Sequences, FiniteSets, TLC

VARIABLES
  launcher,    \* which script runs: "basic" or "config"
  args,        \* process.argv.slice(2)
  portConfig,  \* parsed ports.config.json ({} when absent or unreadable)
  pc,          \* "start": script not yet run; "running"; "exited"
  exitCode,    \* argument of process.exit, -1 while the launcher runs
  ports,       \* the resolved port list
  children,    \* the spawned child processes, in spawn order
  processes,   \* the launcher's array of { port, process }
  timers,      \* number of pending setTimeout callbacks (one per SIGINT)
  emitted,     \* every chunk a child wrote, in arrival order
  console      \* console.log calls made by the data handlers

vars == <<launcher, args, portConfig, pc, exitCode, ports, children,
          processes, timers, emitted, console>>

\* --------------------------------------------------------------------------
\* Bounds of the model
\* --------------------------------------------------------------------------
MaxArgs == 2
MaxChunks == 2
MaxTimers == 2

\* --------------------------------------------------------------------------
\* JavaScript string and number functions, as the scripts use them
\* --------------------------------------------------------------------------
Char(s, i) == SubSeq(s, i, i)

IsWhiteSpace(c) == c \in {" ", "\n", "\t", "\r"}

Digits == {"0", "1", "2", "3", "4", "5", "6", "7", "8", "9"}

DigitVal(c) ==
  CASE c = "0" -> 0 [] c = "1" -> 1 [] c = "2" -> 2 [] c = "3" -> 3
    [] c = "4" -> 4 [] c = "5" -> 5 [] c = "6" -> 6 [] c = "7" -> 7
    [] c = "8" -> 8 [] c = "9" -> 9

DigitChar(d) ==
  CASE d = 0 -> "0" [] d = 1 -> "1" [] d = 2 -> "2" [] d = 3 -> "3"
    [] d = 4 -> "4" [] d = 5 -> "5" [] d = 6 -> "6" [] d = 7 -> "7"
    [] d = 8 -> "8" [] d = 9 -> "9"

RECURSIVE trimStart(_)
trimStart(s) ==
  IF Len(s) > 0 /\ IsWhiteSpace(Char(s, 1))
  THEN trimStart(SubSeq(s, 2, Len(s)))
  ELSE s

RECURSIVE trimEnd(_)
trimEnd(s) ==
  IF Len(s) > 0 /\ IsWhiteSpace(Char(s, Len(s)))
  THEN trimEnd(SubSeq(s, 1, Len(s) - 1))
  ELSE s

\* String.prototype.trim
trim(s) == trimEnd(trimStart(s))

\* String.prototype.startsWith
startsWith(s, p) == Len(s) >= Len(p) /\ SubSeq(s, 1, Len(p)) = p

\* String.prototype.includes
includes(s, t) ==
  \E i \in 1..(Len(s) + 1) :
    i + Len(t) - 1 <= Len(s) /\ SubSeq(s, i, i + Len(t) - 1) = t

\* String.prototype.split with a one-character separator
RECURSIVE split(_, _)
split(s, sep) ==
  IF \E i \in 1..Len(s) : Char(s, i) = sep
  THEN LET i == CHOOSE k \in 1..Len(s) :
                  Char(s, k) = sep /\ \A j \in 1..(k - 1) : Char(s, j) # sep
       IN <<SubSeq(s, 1, i - 1)>> \o split(SubSeq(s, i + 1, Len(s)), sep)
  ELSE <<s>>

\* NaN is the empty tuple and the number n is <<n>>
NaN == <<>>
isNaN(v) == v = NaN

\* value of the longest run of decimal digits at the start of s, read after
\* the digits already accumulated in acc; seen tells whether a digit was read
RECURSIVE parseDigits(_, _, _)
parseDigits(s, acc, seen) ==
  IF Len(s) > 0 /\ Char(s, 1) \in Digits
  THEN parseDigits(SubSeq(s, 2, Len(s)), 10 * acc + DigitVal(Char(s, 1)), TRUE)
  ELSE IF seen THEN <<acc>> ELSE NaN

\* parseInt(s, 10): leading white space skipped, optional sign, then the
\* longest prefix of digits; anything after it is ignored
parseInt(s) ==
  LET t == trimStart(s)
      neg == Len(t) > 0 /\ Char(t, 1) = "-"
      signed == Len(t) > 0 /\ Char(t, 1) \in {"-", "+"}
      body == IF signed THEN SubSeq(t, 2, Len(t)) ELSE t
      v == parseDigits(body, 0, FALSE)
  IN IF isNaN(v) THEN NaN ELSE IF neg THEN <<0 - v[1]>> ELSE v

\* Number.prototype.toString for an integer
RECURSIVE natToString(_)
natToString(n) ==
  IF n < 10 THEN DigitChar(n) ELSE natToString(n \div 10) \o DigitChar(n % 10)

toString(n) == IF n < 0 THEN "-" \o natToString(0 - n) ELSE natToString(n)

\* Array.prototype.includes / findIndex(arg => arg === x) on a list of strings
argsInclude(a, x) == \E i \in 1..Len(a) : a[i] = x

findIndex(a, x) ==
  IF argsInclude(a, x)
  THEN CHOOSE i \in 1..Len(a) : a[i] = x /\ \A j \in 1..(i - 1) : a[j] # x
  ELSE 0

\* .map(p => parseInt(p.trim(), 10)).filter(p => !isNaN(p))
RECURSIVE parsePortList(_)
parsePortList(items) ==
  IF items = <<>> THEN <<>>
  ELSE LET v == parseInt(trim(Head(items)))
       IN (IF isNaN(v) THEN <<>> ELSE v) \o parsePortList(Tail(items))

\* for (const arg of args) if (!arg.startsWith("--")) { parseInt ... push }
RECURSIVE parsePositional(_)
parsePositional(a) ==
  IF a = <<>> THEN <<>>
  ELSE LET v == IF startsWith(Head(a), "--") THEN NaN ELSE parseInt(Head(a))
       IN (IF isNaN(v) THEN <<>> ELSE v) \o parsePositional(Tail(a))

\* --------------------------------------------------------------------------
\* ports.config.json: a JSON object, here a function from its keys to values.
\* A value is [array, ports]: array is <<items>> when the value is a JSON
\* array and Undefined otherwise; ports is <<list>> when the value is an
\* object with a "ports" member and Undefined otherwise.
\* --------------------------------------------------------------------------
Undefined == <<>>

JsonArray(items) == [array |-> <<items>>, ports |-> Undefined]
Profile(portList) == [array |-> Undefined, ports |-> <<portList>>]
ProfileNoPorts == [array |-> Undefined, ports |-> Undefined]

\* portConfig[name]?.ports
configPorts(config, name) ==
  IF name \in DOMAIN config THEN config[name].ports ELSE Undefined

\* --------------------------------------------------------------------------
\* Port resolution
\* --------------------------------------------------------------------------
DEFAULT_PORTS == <<3000, 3001, 3002, 3003>>

\* const help = args.includes("--help") || args.includes("-h")
help(a) == argsInclude(a, "--help") \/ argsInclude(a, "-h")

\* const listProfiles = args.includes("--list") || args.includes("-l")
listProfiles(a) == argsInclude(a, "--list") \/ argsInclude(a, "-l")

\* the ports of "--ports <list>" or else of the positional arguments
portsFromArgs(a) ==
  LET portsIndex == findIndex(a, "--ports")
  IN IF portsIndex # 0 /\ portsIndex + 1 <= Len(a)
     THEN parsePortList(split(a[portsIndex + 1], ","))
     ELSE parsePositional(a)

\* resolveBasic with the --ports and positional arguments read before
\* --default is looked at
resolveBasic_argsBeforeDefault(a) ==
  LET parsed == IF Len(portsFromArgs(a)) = 0 /\ argsInclude(a, "--default")
                THEN DEFAULT_PORTS
                ELSE portsFromArgs(a)
  IN IF Len(parsed) = 0 THEN DEFAULT_PORTS ELSE parsed

\* multi-port.ts: the port list the servers are started on
resolveBasic(a) ==
  LET parsed == IF argsInclude(a, "--default") THEN DEFAULT_PORTS
                ELSE portsFromArgs(a)
  IN IF Len(parsed) = 0 THEN DEFAULT_PORTS ELSE parsed

\* multi-port-config.ts: does "--profile <name>" name a usable profile?
profileRequested(a) ==
  LET profileIndex == findIndex(a, "--profile")
  IN profileIndex # 0 /\ profileIndex + 1 <= Len(a)

profileName(a) == a[findIndex(a, "--profile") + 1]

profileFound(config, a) == configPorts(config, profileName(a)) # Undefined

\* multi-port-config.ts: fallback when the list is empty
defaultsConfig(config) ==
  IF configPorts(config, "development") # Undefined
  THEN configPorts(config, "development")[1]
  ELSE IF "defaultPorts" \in DOMAIN config /\ config["defaultPorts"].array # Undefined
       THEN config["defaultPorts"].array[1]
       ELSE <<3000, 3001, 3002, 3003>>

\* multi-port-config.ts: the port list the servers are started on
resolveConfig(config, a) ==
  LET chosen == IF profileRequested(a)
                THEN configPorts(config, profileName(a))[1]
                ELSE portsFromArgs(a)
  IN IF Len(chosen) = 0 THEN defaultsConfig(config) ELSE chosen

\* --------------------------------------------------------------------------
\* Child processes
\* --------------------------------------------------------------------------
\* spawn("bun", ..., { env: { ...process.env, PORT: port.toString() } });
\* port is the variable the child's three handlers close over.
\* status: "running", "exited" (terminated, exit event not yet delivered),
\* "closed" (exit handler has run).  sigterm: a SIGTERM was sent to it.
spawn(port) ==
  [port |-> port, PORT |-> toString(port), status |-> "running",
   code |-> -1, sigterm |-> FALSE]

\* startServer for each port of the list, in order
startAll(portList) == [i \in 1..Len(portList) |-> spawn(portList[i])]

trackAll(portList) ==
  [i \in 1..Len(portList) |-> [port |-> portList[i], process |-> i]]

\* processes.findIndex(p => p.port === port)
findByPort(procs, port) ==
  IF \E i \in 1..Len(procs) : procs[i].port = port
  THEN CHOOSE i \in 1..Len(procs) :
         procs[i].port = port /\ \A j \in 1..(i - 1) : procs[j].port # port
  ELSE 0

\* processes.splice(index, 1)
splice(procs, index) ==
  SubSeq(procs, 1, index - 1) \o SubSeq(procs, index + 1, Len(procs))

\* child.kill("SIGTERM") for every entry of processes; the signal reaches a
\* child only while it is running
killAll(kids, procs) ==
  [c \in 1..Len(kids) |->
     IF kids[c].status = "running" /\ \E i \in 1..Len(procs) : procs[i].process = c
     THEN [kids[c] EXCEPT !.sigterm = TRUE]
     ELSE kids[c]]

\* --------------------------------------------------------------------------
\* Actions
\* --------------------------------------------------------------------------
\* process.exit(code)
Exit(code) == pc' = "exited" /\ exitCode' = code

\* multi-port.ts, top level: runs to the end before any event is handled
MainBasic ==
  /\ pc = "start" /\ launcher = "basic"
  /\ IF help(args)
     THEN /\ Exit(0)
          /\ UNCHANGED <<ports, children, processes>>
     ELSE /\ ports' = resolveBasic(args)
          /\ children' = startAll(ports')
          /\ processes' = trackAll(ports')
          /\ pc' = "running"
          /\ UNCHANGED exitCode
  /\ UNCHANGED <<launcher, args, portConfig, timers, emitted, console>>

\* multi-port-config.ts, top level
MainConfig ==
  /\ pc = "start" /\ launcher = "config"
  /\ IF help(args) \/ listProfiles(args)
     THEN /\ Exit(0)
          /\ UNCHANGED <<ports, children, processes>>
     ELSE IF profileRequested(args) /\ ~profileFound(portConfig, args)
     THEN /\ Exit(1)
          /\ UNCHANGED <<ports, children, processes>>
     ELSE /\ ports' = resolveConfig(portConfig, args)
          /\ children' = startAll(ports')
          /\ processes' = trackAll(ports')
          /\ pc' = "running"
          /\ UNCHANGED exitCode
  /\ UNCHANGED <<launcher, args, portConfig, timers, emitted, console>>

\* a child server terminates, for whatever reason, with some exit code
ChildExits(c, code) ==
  /\ pc = "running"
  /\ c \in 1..Len(children) /\ children[c].status = "running"
  /\ children' = [children EXCEPT ![c].status = "exited", ![c].code = code]
  /\ UNCHANGED <<launcher, args, portConfig, pc, exitCode, ports, processes,
                 timers, emitted, console>>

\* child.on("exit", ...) of child c
OnExit(c) ==
  /\ pc = "running"
  /\ c \in 1..Len(children) /\ children[c].status = "exited"
  /\ children' = [children EXCEPT ![c].status = "closed"]
  /\ LET index == findByPort(processes, children[c].port)
     IN processes' = IF index # 0 THEN splice(processes, index) ELSE processes
  /\ UNCHANGED <<launcher, args, portConfig, pc, exitCode, ports, timers,
                 emitted, console>>

\* process.on("SIGINT", ...)
OnSIGINT ==
  /\ pc = "running"
  /\ timers < MaxTimers
  /\ children' = killAll(children, processes)
  /\ timers' = timers + 1
  /\ UNCHANGED <<launcher, args, portConfig, pc, exitCode, ports, processes,
                 emitted, console>>

\* the setTimeout callback of the SIGINT handler
OnTimeout ==
  /\ pc = "running"
  /\ timers > 0
  /\ Exit(0)
  /\ UNCHANGED <<launcher, args, portConfig, ports, children, processes,
                 timers, emitted, console>>

\* process.on("SIGTERM", ...)
OnSIGTERM ==
  /\ pc = "running"
  /\ children' = killAll(children, processes)
  /\ Exit(0)
  /\ UNCHANGED <<launcher, args, portConfig, ports, processes, timers,
                 emitted, console>>

\* the text console.log prints for a forwarded chunk
tagged(port, output) == "[Port " \o toString(port) \o "] " \o trim(output)

\* the stdout filter
relevant(output) ==
  includes(output, "Server running") \/ includes(output, "error")
    \/ includes(output, "Error")

\* child.stdout.on("data", ...) of child c
OnStdout(c, data) ==
  /\ pc = "running"
  /\ c \in 1..Len(children)
  /\ Len(emitted) < MaxChunks
  /\ emitted' = Append(emitted, [child |-> c, stream |-> "stdout", data |-> data])
  /\ console' = IF relevant(data)
                THEN Append(console, [chunk |-> Len(emitted) + 1,
                                      text |-> tagged(children[c].port, data)])
                ELSE console
  /\ UNCHANGED <<launcher, args, portConfig, pc, exitCode, ports, children,
                 processes, timers>>

\* OnStderr with one port variable shared by all children's handlers: it
\* holds the port of the child started last
OnStderr_sharedPort(c, data) ==
  /\ pc = "running"
  /\ c \in 1..Len(children)
  /\ Len(emitted) < MaxChunks
  /\ emitted' = Append(emitted, [child |-> c, stream |-> "stderr", data |-> data])
  /\ console' = Append(console, [chunk |-> Len(emitted) + 1,
                                 text |-> tagged(children[Len(children)].port, data)])
  /\ UNCHANGED <<launcher, args, portConfig, pc, exitCode, ports, children,
                 processes, timers>>

\* child.stderr.on("data", ...) of child c
OnStderr(c, data) ==
  /\ pc = "running"
  /\ c \in 1..Len(children)
  /\ Len(emitted) < MaxChunks
  /\ emitted' = Append(emitted, [child |-> c, stream |-> "stderr", data |-> data])
  /\ console' = Append(console, [chunk |-> Len(emitted) + 1,
                                 text |-> tagged(children[c].port, data)])
  /\ UNCHANGED <<launcher, args, portConfig, pc, exitCode, ports, children,
                 processes, timers>>

\* --------------------------------------------------------------------------
\* Inputs: command lines and configuration files
\* --------------------------------------------------------------------------
SeqsUpTo(S, n) == UNION {[1..k -> S] : k \in 0..n}

\* arguments the port resolution is exercised on
ArgTokens ==
  {"--default", "--ports", "--profile", "-h", "--list",
   "7", "8", "8, 7", "7x", "x", "testing", "empty"}

\* no ports.config.json, or one that does not parse: portConfig = {}
ConfigNone == [k \in {} |-> ProfileNoPorts]

\* the ports.config.json of the guide
ConfigGuide ==
  ("defaultPorts" :> JsonArray(<<3000, 3001, 3002, 3003>>))
    @@ ("development" :> Profile(<<3000, 3001, 3002, 3003>>))
    @@ ("testing" :> Profile(<<4000, 4001, 4002>>))
    @@ ("staging" :> Profile(<<5000, 5001>>))

\* the same with a profile whose port list is empty
ConfigEmptyProfile == ConfigGuide @@ ("empty" :> Profile(<<>>))

\* only defaultPorts, and a profile without a "ports" member
ConfigDefaultsOnly ==
  ("defaultPorts" :> JsonArray(<<7, 8>>)) @@ ("testing" :> ProfileNoPorts)

\* a profile that lists a port twice, and an empty development profile
ConfigRepeated ==
  ("development" :> Profile(<<>>)) @@ ("testing" :> Profile(<<4000, 4000>>))

Configs ==
  {ConfigNone, ConfigGuide, ConfigEmptyProfile, ConfigDefaultsOnly,
   ConfigRepeated}

\* the variables as they are before the script's first statement
Fresh ==
  /\ pc = "start" /\ exitCode = -1
  /\ ports = <<>> /\ children = <<>> /\ processes = <<>>
  /\ timers = 0 /\ emitted = <<>> /\ console = <<>>

\* either launcher, on any command line of ArgTokens and any configuration
InitResolve ==
  /\ launcher \in {"basic", "config"}
  /\ args \in SeqsUpTo(ArgTokens, MaxArgs)
  /\ portConfig \in (IF launcher = "basic" THEN {ConfigNone} ELSE Configs)
  /\ Fresh

\* either launcher, on positional port arguments (none: the defaults)
InitPorts ==
  /\ launcher \in {"basic", "config"}
  /\ args \in SeqsUpTo({"7", "8"}, MaxArgs)
  /\ portConfig = (IF launcher = "basic" THEN ConfigNone ELSE ConfigGuide)
  /\ Fresh

ExitCodes == {0, 1}

\* chunks a child may write
Chunks ==
  {"Server running at http://localhost/\n", "Bundled page in 5ms\n",
   "TypeError: x\n    at y\n", "warn\n"}

Main == MainBasic \/ MainConfig

\* port resolution and spawning
NextResolve == Main

SpecResolve == InitResolve /\ [][NextResolve]_vars

\* the life of the children and of the launcher
NextLifecycle ==
  \/ Main
  \/ \E c \in 1..Len(children), code \in ExitCodes : ChildExits(c, code)
  \/ \E c \in 1..Len(children) : OnExit(c)
  \/ OnSIGINT
  \/ OnTimeout
  \/ OnSIGTERM

SpecLifecycle == InitPorts /\ [][NextLifecycle]_vars

\* output forwarding
NextOutput ==
  \/ Main
  \/ \E c \in 1..Len(children), data \in Chunks : OnStdout(c, data)
  \/ \E c \in 1..Len(children), data \in Chunks : OnStderr(c, data)

SpecOutput == InitPorts /\ [][NextOutput]_vars

\* --------------------------------------------------------------------------
\* Properties
\* --------------------------------------------------------------------------
Tracked(c) == \E i \in 1..Len(processes) : processes[i].process = c

\* C1: once the SIGINT handler has run, every child that is still running has
\* been sent SIGTERM, and a launcher that exits afterwards exits with code 0.
C1_SigintStopsEveryChild ==
  timers > 0 =>
    /\ \A c \in 1..Len(children) :
         children[c].status = "running" => children[c].sigterm
    /\ pc = "exited" => exitCode = 0

\* C2: a step in which the exit handler of child c runs changes no other
\* child (none is signalled or stopped) and removes from processes the entry
\* of c and no other entry.
C2_ExitTouchesOnlyTheExitedChild ==
  [][\A c \in 1..Len(children) :
       (children[c].status = "exited" /\ children'[c].status = "closed") =>
         /\ \A d \in 1..Len(children) : d # c => children'[d] = children[d]
         /\ processes' = SelectSeq(processes, LAMBDA e : e.process # c)]_vars

\* C3: no two children spawned by one launcher run are given the same PORT.
C3_ChildrenOnDifferentPorts ==
  \A i, j \in 1..Len(children) :
    i # j => children[i].PORT # children[j].PORT

\* the port the server of a child listens on, read from the child's
\* environment: parseInt(process.env.PORT || "3000", 10)
serverPort(PORT) == parseInt(IF PORT = "" THEN "3000" ELSE PORT)

\* one child per element of list, in list order, each listening on it
StartedOn(list) ==
  /\ ports = list
  /\ Len(children) = Len(list)
  /\ \A i \in 1..Len(list) : serverPort(children[i].PORT) = <<list[i]>>

\* s is an integer written in decimal, with an optional sign
IsIntegerText(s) ==
  LET body == IF Len(s) > 0 /\ Char(s, 1) \in {"-", "+"}
              THEN SubSeq(s, 2, Len(s)) ELSE s
  IN Len(body) > 0 /\ \A i \in 1..Len(body) : Char(body, i) \in Digits

RECURSIVE DecimalValue(_)
DecimalValue(s) ==
  IF Len(s) = 0 THEN 0
  ELSE 10 * DecimalValue(SubSeq(s, 1, Len(s) - 1)) + DigitVal(Char(s, Len(s)))

IntegerValue(s) ==
  IF Char(s, 1) = "-" THEN 0 - DecimalValue(SubSeq(s, 2, Len(s)))
  ELSE IF Char(s, 1) = "+" THEN DecimalValue(SubSeq(s, 2, Len(s)))
  ELSE DecimalValue(s)

\* s begins, after optional white space, with an integer
BeginsWithInteger(s) ==
  \E k \in 1..Len(trimStart(s)) : IsIntegerText(SubSeq(trimStart(s), 1, k))

\* the integer s begins with: its longest prefix that is an integer
LeadingInteger(s) ==
  LET t == trimStart(s)
      k == CHOOSE n \in 1..Len(t) :
             /\ IsIntegerText(SubSeq(t, 1, n))
             /\ \A m \in (n + 1)..Len(t) : ~IsIntegerText(SubSeq(t, 1, m))
  IN IntegerValue(SubSeq(t, 1, k))

IsPositional(arg) == ~startsWith(arg, "--")

\* "--ports" is given, and followed by a list
PortsGiven(a) == \E i \in 1..(Len(a) - 1) : a[i] = "--ports"

\* the items of the comma-separated list after the first "--ports",
\* without the white space around them
PortsItems(a) ==
  LET i == CHOOSE k \in 1..(Len(a) - 1) :
             a[k] = "--ports" /\ \A j \in 1..(k - 1) : a[j] # "--ports"
      items == split(a[i + 1], ",")
  IN [n \in 1..Len(items) |-> trim(items[n])]

\* the integers the arguments specify, where Is tells which texts count as
\* an integer and Val gives their value
SpecifiedPorts(a, Is(_), Val(_)) ==
  LET texts == IF PortsGiven(a) THEN PortsItems(a)
               ELSE SelectSeq(a, IsPositional)
      ints == SelectSeq(texts, Is)
  IN [n \in 1..Len(ints) |-> Val(ints[n])]

\* the list C4 describes for the basic launcher
BasicPorts(a, Is(_), Val(_)) ==
  IF argsInclude(a, "--default") \/ SpecifiedPorts(a, Is, Val) = <<>>
  THEN <<3000, 3001, 3002, 3003>>
  ELSE SpecifiedPorts(a, Is, Val)

\* C4 as stated: the basic launcher, run without --help, starts one server
\* per element, in order, of: the defaults when --default is given or no port
\* is specified; else the integers of the list after --ports; else the
\* positional integer arguments.  An integer is an argument that is one.
C4_BasicPortsAreTheIntegerArguments ==
  (launcher = "basic" /\ pc = "running") =>
    StartedOn(BasicPorts(args, IsIntegerText, IntegerValue))

\* C4, amended: the same, where an argument or list item counts as soon as it
\* begins with an integer, and stands for that leading integer ("7x" is 7).
C4_BasicPortsAreTheLeadingIntegers ==
  (launcher = "basic" /\ pc = "running") =>
    StartedOn(BasicPorts(args, BeginsWithInteger, LeadingInteger))

C4_Witness ==
  /\ launcher = "basic" /\ pc = "running"
  /\ args = <<"7x", "8">>
  /\ Len(children) = 2
  /\ children[1].PORT = "7" /\ children[2].PORT = "8"

\* the profile "--profile <name>" names, when the configuration has it and
\* it has a ports list
ProfileChosen(config, a) ==
  /\ \E i \in 1..(Len(a) - 1) : a[i] = "--profile"
  /\ LET i == CHOOSE k \in 1..(Len(a) - 1) :
                a[k] = "--profile" /\ \A j \in 1..(k - 1) : a[j] # "--profile"
     IN a[i + 1] \in DOMAIN config /\ config[a[i + 1]].ports # Undefined

ChosenProfilePorts(config, a) ==
  LET i == CHOOSE k \in 1..(Len(a) - 1) :
             a[k] = "--profile" /\ \A j \in 1..(k - 1) : a[j] # "--profile"
  IN config[a[i + 1]].ports[1]

\* no argument specifies a port: no profile is asked for and no argument or
\* list item begins with an integer
NoPortSpecified(a) ==
  /\ ~\E i \in 1..(Len(a) - 1) : a[i] = "--profile"
  /\ SpecifiedPorts(a, BeginsWithInteger, LeadingInteger) = <<>>

ConfigFallback(config) ==
  IF "development" \in DOMAIN config /\ config["development"].ports # Undefined
  THEN config["development"].ports[1]
  ELSE IF "defaultPorts" \in DOMAIN config
       THEN config["defaultPorts"].array[1]
       ELSE <<3000, 3001, 3002, 3003>>

\* C5: the config launcher, once it runs servers, runs them on exactly the
\* ports of the profile "--profile <name>" names when that profile has a
\* ports list; and, when no argument specifies a port, on the ports of the
\* development profile, else on defaultPorts, else on 3000..3003.
C5_ProfilePortsAndFallback ==
  (launcher = "config" /\ pc = "running") =>
    /\ ProfileChosen(portConfig, args) =>
         StartedOn(ChosenProfilePorts(portConfig, args))
    /\ NoPortSpecified(args) => StartedOn(ConfigFallback(portConfig))

\* the tag of the child that wrote chunk number n
TagOf(n) == "[Port " \o toString(children[emitted[n].child].port) \o "]"

\* the chunks the launcher is to forward: every stderr chunk, and the stdout
\* chunks that contain one of the three key words
Forwarded(chunk) ==
  \/ chunk.stream = "stderr"
  \/ \E word \in {"Server running", "error", "Error"} :
       includes(chunk.data, word)

ForwardedChunks ==
  LET Keep(n) == Forwarded(emitted[n])
  IN SelectSeq([n \in 1..Len(emitted) |-> n], Keep)

\* the console shows the forwarded chunks, each once, in arrival order
ConsoleShowsForwarded ==
  [n \in 1..Len(console) |-> console[n].chunk] = ForwardedChunks

\* C6 as stated: the console shows exactly the forwarded chunks, and every
\* line printed for a chunk begins with the tag of the child that wrote it.
C6_EveryForwardedLineIsTagged ==
  /\ ConsoleShowsForwarded
  /\ \A n \in 1..Len(console) :
       LET lines == split(console[n].text, "\n")
       IN \A k \in 1..Len(lines) :
            startsWith(lines[k], TagOf(console[n].chunk))

\* C6, amended: the console shows exactly the forwarded chunks, and what is
\* printed for a chunk (one console.log call) begins with the tag of the
\* child that wrote it; further lines of the same chunk carry no tag.
C6_EveryForwardedChunkIsTagged ==
  /\ ConsoleShowsForwarded
  /\ \A n \in 1..Len(console) :
       startsWith(console[n].text, TagOf(console[n].chunk))

C6_Witness ==
  /\ Len(emitted) = 2 /\ Len(console) = 1
  /\ emitted[1].stream = "stdout" /\ ~Forwarded(emitted[1])
  /\ emitted[2].stream = "stderr" /\ emitted[2].child = 1
  /\ Len(split(console[1].text, "\n")) = 2
  /\ Len(children) = 2 /\ children[1].port # children[2].port
  /\ startsWith(console[1].text, "[Port 7] TypeError")

====
